---------------------------- MODULE Spec2Model ----------------------------
(***************************************************************************)
(* Riders dashboard (src/main.py): a Streamlit script.  Every user event   *)
(* re-runs the script top to bottom ("a pass") against the per-session     *)
(* st.session_state, the widget store and the process-wide st.cache_data   *)
(* of load_data.                                                           *)
(*                                                                         *)
(* Encoding.  A nullable cell (pandas NaN / NaT / None, an absent          *)
(* session_state key) is the empty tuple Null, a present value v is <<v>>. *)
(* Text that the code lower-cases, strips or searches (invoice types,      *)
(* order statuses, typed user names) is a tuple of one-character strings,  *)
(* so that str.lower, str.strip and substring search are computed.         *)
(* Rider names, shift names and passwords are only compared for equality   *)
(* and are plain strings.  A DataFrame is a sequence of records, one per   *)
(* row; idx is the row's index label.  Option lists and selections are     *)
(* sets (the code sorts them for display only), except the admin's branch  *)
(* selection, a list whose order is the order of the merged frame.  Dates  *)
(* are day numbers, the clock counts minutes.                              *)
(***************************************************************************)
EXTENDS Integers, Sequences, FiniteSets, TLC

Null == <<>>
Some(v) == <<v>>
IsNull(c) == c = <<>>
Val(c) == c[1]

(***************************************************************************)
(* Text                                                                    *)
(***************************************************************************)
UpperAlpha == <<"A","B","C","D","E","F","G","H","I","J","K","L","M",
                "N","O","P","Q","R","S","T","U","V","W","X","Y","Z">>
LowerAlpha == <<"a","b","c","d","e","f","g","h","i","j","k","l","m",
                "n","o","p","q","r","s","t","u","v","w","x","y","z">>

\* every character a text of the model is written with
Chars ==
    {UpperAlpha[i] : i \in DOMAIN UpperAlpha} \cup {LowerAlpha[i] : i \in DOMAIN LowerAlpha}
    \cup {" ", "-", "6", "\t"}

LowerChar ==
    [c \in Chars |->
        IF \E i \in DOMAIN UpperAlpha : UpperAlpha[i] = c
        THEN LowerAlpha[CHOOSE i \in DOMAIN UpperAlpha : UpperAlpha[i] = c]
        ELSE c]

\* str.lower()
Lower(s) == [i \in DOMAIN s |-> LowerChar[s[i]]]

\* needle in s  /  Series.str.contains(needle) on one non-null value
Contains(s, needle) ==
    \E i \in 0..(Len(s) - Len(needle)) : SubSeq(s, i + 1, i + Len(needle)) = needle

IsSpace(c) == c \in {" ", "\t"}

\* str.strip()
Strip(s) ==
    LET keep == {i \in DOMAIN s : ~IsSpace(s[i])}
    IN  IF keep = {} THEN <<>>
        ELSE LET lo == CHOOSE i \in keep : \A j \in keep : i <= j
                 hi == CHOOSE i \in keep : \A j \in keep : j <= i
             IN  SubSeq(s, lo, hi)

\* the literals the script searches for
T_cod == <<"c","o","d">>
T_card == <<"c","a","r","d">>
T_complaint_order == <<"c","o","m","p","l","a","i","n","t"," ","o","r","d","e","r">>
T_staff_tab == <<"s","t","a","f","f"," ","t","a","b">>
T_pr_tab == <<"p","r"," ","t","a","b">>
T_cancel_order == <<"c","a","n","c","e","l"," ","o","r","d","e","r">>
T_emp == <<"e","m","p">>
T_admin == <<"a","d","m","i","n">>

\* invoice types and order statuses as they appear in the sheets
COD == <<"C","O","D">>
Card == <<"C","a","r","d">>
ComplaintOrder == <<"C","o","m","p","l","a","i","n","t"," ","O","r","d","e","r">>
StaffTab == <<"S","t","a","f","f"," ","T","a","b">>
PRTab == <<"P","R"," ","T","a","b">>
CODOnline == <<"C","O","D"," ","-"," ","O","n","l","i","n","e">>
Completed == <<"C","o","m","p","l","e","t","e","d">>
CancelOrder == <<"C","a","n","c","e","l"," ","O","r","d","e","r">>

(***************************************************************************)
(* AUTH constants                                                          *)
(***************************************************************************)
IDLE_TIMEOUT_MIN == 45
CACHE_TTL_SEC == 600
TTL_MIN == CACHE_TTL_SEC \div 60

U_p6 == <<"p","6">>
U_zeeshan == <<"z","e","e","s","h","a","n">>
U_cc == <<"c","c">>
U_ck == <<"c","k">>
U_jt == <<"j","t">>
U_bt == <<"b","t">>

\* USERS: user name -> password
USERS ==
    (U_p6 :> "123") @@ (T_emp :> "emp123") @@ (U_zeeshan :> "p6-view") @@
    (U_cc :> "CC123") @@ (U_ck :> "CK123") @@ (U_jt :> "JT123") @@
    (U_bt :> "BT123") @@ (T_admin :> "6969")

\* DATA_SOURCES: key -> profile.  sheet is the key itself where the profile
\* has a sheet_url of its own and Null for admin.
SourceKeys == {"emp", "cc", "ck", "jt", "bt", "default"}
KeyOrder == <<"emp", "admin", "cc", "ck", "jt", "bt", "default">>
PhaseOf(k) ==
    CASE k = "emp" -> "Emporium"
      [] k = "admin" -> "Admin"
      [] k = "cc" -> "CC"
      [] k = "ck" -> "CK"
      [] k = "jt" -> "JT"
      [] k = "bt" -> "BT"
      [] OTHER -> "Phase 6"
DATA_SOURCES ==
    [k \in SourceKeys \cup {"admin"} |->
        [sheet_url |-> IF k = "admin" THEN Null ELSE Some(k), phase |-> PhaseOf(k)]]

KeyOfUser(u) ==
    CASE u = T_emp -> "emp"
      [] u = T_admin -> "admin"
      [] u = U_cc -> "cc"
      [] u = U_ck -> "ck"
      [] u = U_jt -> "jt"
      [] u = U_bt -> "bt"
      [] OTHER -> "default"

\* _resolve_profile(username)
resolve_profile(username) == DATA_SOURCES[KeyOfUser(Lower(Strip(username)))]


(***************************************************************************)
(* Data loading: load_data                                                 *)
(***************************************************************************)
\* The columns of a sheet row that the model carries.  A raw row holds one
\* nullable cell per column (Null: a blank or unparseable cell) and ref, the
\* columns whose cell is a text containing "#REF!" (the value of such a cell
\* is not otherwise read).
Columns == {"date", "rider", "invoice_type", "shift", "order_status",
            "total_amount", "payout", "cash", "fifty_ten", "delay_reason"}

HasRef(raw) == raw.ref # {}

\* df.dropna(how="all"): a row goes when every cell is NaN (a text cell is not)
AllBlank(raw) == raw.ref = {} /\ \A c \in Columns : IsNull(raw[c])

\* df[~df.applymap(lambda x: isinstance(x, str) and '#REF!' in x)]: indexing a
\* frame with a boolean frame is DataFrame.where, which keeps every row and
\* sets the cells whose mask is False to NaN.
MaskRef(raw, c) == IF c \in raw.ref THEN Null ELSE raw[c]

\* pd.to_numeric(errors='coerce').fillna(0)
ToNumber(cell) == IF IsNull(cell) THEN 0 ELSE Val(cell)

\* one row of the frame load_data returns; i is the row's position in the sheet
NormalizeRow(raw, i) ==
    [idx |-> i - 1,
     date |-> MaskRef(raw, "date"),
     rider |-> MaskRef(raw, "rider"),
     invoice_type |-> MaskRef(raw, "invoice_type"),
     shift |-> MaskRef(raw, "shift"),
     order_status |-> MaskRef(raw, "order_status"),
     total_amount |-> ToNumber(MaskRef(raw, "total_amount")),
     payout |-> ToNumber(MaskRef(raw, "payout")),
     cash |-> ToNumber(MaskRef(raw, "cash")),
     fifty_ten |-> ToNumber(MaskRef(raw, "fifty_ten")),
     delay_reason |-> MaskRef(raw, "delay_reason"),
     branch |-> Null]

RECURSIVE LoadFrom(_, _)
LoadFrom(rows, i) ==
    IF i > Len(rows) THEN <<>>
    ELSE IF AllBlank(rows[i]) THEN LoadFrom(rows, i + 1)
    ELSE <<NormalizeRow(rows[i], i)>> \o LoadFrom(rows, i + 1)

\* the frame load_data(sheet_url, worksheet_name) builds from the sheet's rows
LoadFrame(rows) == LoadFrom(rows, 1)

TagBranchNone(frame, b) == frame

\* df["Branch"] = ...
TagBranch(frame, b) == [i \in DOMAIN frame |-> [frame[i] EXCEPT !.branch = Some(b)]]

\* pd.concat(all_dfs, ignore_index=True)
Reindex(frame) == [i \in DOMAIN frame |-> [frame[i] EXCEPT !.idx = i - 1]]

(***************************************************************************)
(* Frames                                                                  *)
(***************************************************************************)
RECURSIVE SumCol(_, _)
SumCol(frame, col) ==
    IF frame = <<>> THEN 0
    ELSE Head(frame)[col] + SumCol(Tail(frame), col)

\* sorted(frame[col].dropna().unique().tolist())
Options(frame, col) ==
    {Val(frame[i][col]) : i \in {j \in DOMAIN frame : ~IsNull(frame[j][col])}}

\* frame[col].isin(values) on one row
IsIn(r, col, values) == ~IsNull(r[col]) /\ Val(r[col]) \in values

InRangeOrNaT(r, start, end) ==
    IsNull(r.date) \/ (Val(r.date) >= start /\ Val(r.date) <= end)

\* (df['Date'] >= start) & (df['Date'] <= end) on one row; NaT compares False
InRange(r, start, end) ==
    ~IsNull(r.date) /\ Val(r.date) >= start /\ Val(r.date) <= end

Dates(frame) == {Val(frame[i].date) : i \in {j \in DOMAIN frame : ~IsNull(frame[j].date)}}
MinDate(frame) == CHOOSE d \in Dates(frame) : \A e \in Dates(frame) : d <= e
MaxDate(frame) == CHOOSE d \in Dates(frame) : \A e \in Dates(frame) : e <= d

(***************************************************************************)
(* Cascading filters                                                       *)
(***************************************************************************)
Base(df, start, end) == SelectSeq(df, LAMBDA r : InRange(r, start, end))

Lvl1Wrong(base, selected_invoice_type) == base

\* lvl1 = base[base['Invoice Type'].isin(sel)] if sel else base
Lvl1(base, selected_invoice_type) ==
    IF selected_invoice_type # {}
    THEN SelectSeq(base, LAMBDA r : IsIn(r, "invoice_type", selected_invoice_type))
    ELSE base

\* lvl2 = lvl1[lvl1['Shift Type'].isin(sel)] if sel else lvl1
Lvl2(lvl1, selected_shifts) ==
    IF selected_shifts # {}
    THEN SelectSeq(lvl1, LAMBDA r : IsIn(r, "shift", selected_shifts))
    ELSE lvl1

\* the final filtered dataframe
FilteredDf(df, start, end, inv_opts, sel_inv, shift_opts, sel_shift, rider_opts, sel_rider) ==
    SelectSeq(df, LAMBDA r :
        /\ InRange(r, start, end)
        /\ (inv_opts # {} => IsIn(r, "invoice_type", sel_inv))
        /\ (shift_opts # {} => IsIn(r, "shift", sel_shift))
        /\ (rider_opts # {} => IsIn(r, "rider", sel_rider)))


(***************************************************************************)
(* Invoice summary (reconciliation) over the final filtered dataframe      *)
(***************************************************************************)
\* Series.str.lower() on one cell: NaN stays NaN
LowerCell(cell) == IF IsNull(cell) THEN Null ELSE Some(Lower(Val(cell)))

\* Series.str.strip().str.lower().str.contains(needle, na=False) on one cell
StripLowerContains(cell, needle) ==
    ~IsNull(cell) /\ Contains(Lower(Strip(Val(cell))), needle)

\* frame[frame['Invoice Type'].str.lower().str.contains(needle)]: the mask of a
\* row with a NaN invoice type is NaN, and indexing with such a mask raises
MaskRaises(frame) == \E i \in DOMAIN frame : IsNull(frame[i].invoice_type)
WhereContains(frame, needle) ==
    SelectSeq(frame, LAMBDA r :
        ~IsNull(r.invoice_type) /\ Contains(Lower(Val(r.invoice_type)), needle))

complaint_df(fdf) ==
    SelectSeq(fdf, LAMBDA r : LowerCell(r.invoice_type) = Some(T_complaint_order))
staff_tab_df(fdf) ==
    SelectSeq(fdf, LAMBDA r : StripLowerContains(r.invoice_type, T_staff_tab))
pr_tab_df(fdf) ==
    SelectSeq(fdf, LAMBDA r : StripLowerContains(r.invoice_type, T_pr_tab))

\* filtered_df[~filtered_df['Invoice Type'].str.lower().isin(['complaint order', 'staff tab'])]
filtered_df_valid(fdf) ==
    SelectSeq(fdf, LAMBDA r :
        ~(LowerCell(r.invoice_type) \in {Some(T_complaint_order), Some(T_staff_tab)}))

cancelled_df(fdf) ==
    SelectSeq(fdf, LAMBDA r : LowerCell(r.order_status) = Some(T_cancel_order))

\* the script raises in the invoice summary when a mask holds NaN
ReconRaises(fdf) == MaskRaises(cancelled_df(fdf)) \/ MaskRaises(filtered_df_valid(fdf))

\* st.session_state.get("username", "").lower() == "emp"
IsEmp(username) == ~IsNull(username) /\ Lower(Val(username)) = T_emp

GrossTotalValidOnly(fdf) == SumCol(filtered_df_valid(fdf), "total_amount")

\* total_amount = filtered_df['Total Amount'].sum()
GrossTotal(fdf) == SumCol(fdf, "total_amount")

CardVerificationCardOnly(card_total, cancelled_card_amount) == card_total

\* card_total - cancelled_card_amount, shown as "Final Net Collection (Card Verification)"
CardVerification(card_total, cancelled_card_amount) == card_total - cancelled_card_amount

NetCodKeepingTabs(dum, pr_tab, staff_tab, complaint, cancelled_cod, payouts, cash) ==
    dum - cancelled_cod - payouts - cash

\* the expression shown as "Final Net Collection (COD)"
NetCod(dum, pr_tab, staff_tab, complaint, cancelled_cod, payouts, cash) ==
    dum - pr_tab - staff_tab - complaint - cancelled_cod - payouts - cash

\* every named quantity of the invoice summary section, for a frame on which
\* it does not raise
Reconcile(fdf, username) ==
    LET complaint_amount == SumCol(complaint_df(fdf), "total_amount")
        staff_tab_amount == SumCol(staff_tab_df(fdf), "total_amount")
        pr_tab_amount == SumCol(pr_tab_df(fdf), "total_amount")
        valid == filtered_df_valid(fdf)
        total_amount == GrossTotal(fdf)
        cancelled == cancelled_df(fdf)
        rider_payouts == SumCol(fdf, "payout")
        rider_cash_submitted == SumCol(fdf, "cash")
        cancelled_cod_amount == SumCol(WhereContains(cancelled, T_cod), "total_amount")
        cancelled_card_amount == SumCol(WhereContains(cancelled, T_card), "total_amount")
        cod_total0 == SumCol(WhereContains(valid, T_cod), "total_amount")
        card_total == SumCol(WhereContains(valid, T_card), "total_amount")
        fifty_ten_total == IF IsEmp(username) THEN SumCol(fdf, "fifty_ten") ELSE 0
        cod_total == IF IsEmp(username) THEN cod_total0 - fifty_ten_total ELSE cod_total0
        net_after_cancel == total_amount - cancelled_cod_amount - cancelled_card_amount
        final_net_collection ==
            IF IsEmp(username)
            THEN net_after_cancel - complaint_amount - staff_tab_amount
                 - rider_cash_submitted - rider_payouts - pr_tab_amount
                 - card_total - fifty_ten_total
            ELSE net_after_cancel - complaint_amount - staff_tab_amount
                 - rider_cash_submitted - rider_payouts - pr_tab_amount - card_total
        dum == cod_total + pr_tab_amount + staff_tab_amount + complaint_amount
    IN  [complaint_amount |-> complaint_amount,
         staff_tab_amount |-> staff_tab_amount,
         pr_tab_amount |-> pr_tab_amount,
         total_amount |-> total_amount,
         rider_payouts |-> rider_payouts,
         rider_cash_submitted |-> rider_cash_submitted,
         cancelled_cod_amount |-> cancelled_cod_amount,
         cancelled_card_amount |-> cancelled_card_amount,
         cod_total |-> cod_total,
         card_total |-> card_total,
         fifty_ten_total |-> fifty_ten_total,
         final_net_collection |-> final_net_collection,
         dum |-> dum,
         \* invoice_summary: label -> the amount the label's text renders
         invoice_summary |->
            [label \in {"Total Amount", "Card Total Amount ", "Cancelled CARD Amount",
                        "Final Net Collection (Card Verification)", "COD Total Amount ",
                        "PR Tab Order Amount", "Staff Tab Order Amount",
                        "Complaint Order Amount", "Cancelled COD Amount", "Parking Fee",
                        "Rider Reading Payouts", "Rider Cash Submitted to DFPL",
                        "Final Net Collection (COD)"} |->
                CASE label = "Total Amount" -> total_amount
                  [] label = "Card Total Amount " -> card_total
                  [] label = "Cancelled CARD Amount" -> cancelled_card_amount
                  [] label = "Final Net Collection (Card Verification)" ->
                        CardVerification(card_total, cancelled_card_amount)
                  [] label = "COD Total Amount " ->
                        IF IsEmp(username) THEN dum + fifty_ten_total ELSE dum
                  [] label = "PR Tab Order Amount" -> pr_tab_amount
                  [] label = "Staff Tab Order Amount" -> staff_tab_amount
                  [] label = "Complaint Order Amount" -> complaint_amount
                  [] label = "Cancelled COD Amount" -> cancelled_cod_amount
                  [] label = "Parking Fee" -> fifty_ten_total
                  [] label = "Rider Reading Payouts" -> rider_payouts
                  [] label = "Rider Cash Submitted to DFPL" -> rider_cash_submitted
                  [] OTHER -> NetCod(dum, pr_tab_amount, staff_tab_amount,
                                     complaint_amount, cancelled_cod_amount,
                                     rider_payouts, rider_cash_submitted)]]


(***************************************************************************)
(* State                                                                   *)
(***************************************************************************)
VARIABLES
    now,        \* the clock, in minutes
    sheet,      \* source key -> the rows the Google sheet holds now
    cache,      \* st.cache_data of load_data: source key -> Null | <<[df, at]>>
    session,    \* st.session_state
    widgets,    \* the widget store: the widgets the last pass rendered
    out,        \* what the last pass computed and rendered
    edits       \* number of sheet edits so far

vars == <<now, sheet, cache, session, widgets, out, edits>>

EmptySession ==
    [authed |-> Null, username |-> Null, last_activity |-> Null,
     sheet_url |-> Null, phase |-> Null,
     selected_invoice_type |-> Null, selected_shifts |-> Null,
     selected_riders |-> Null]

NoWidgets ==
    [branches |-> Null, date |-> Null, invoice |-> Null, shift |-> Null, rider |-> Null]

EmptyCache == [k \in SourceKeys |-> Null]

\* a pass that stopped before data loading: the login page
\* (stage "login": _login_ui() and st.stop(); stage "logged_out": the run of
\* the Logout click, which renders the sidebar caption, clears the session
\* state and ends at st.rerun(), the login page not yet rendered)
LoginView ==
    [stage |-> "login", event |-> "none", at |-> 0, branches |-> <<>>, served |-> {},
     df |-> <<>>, start |-> 0, end |-> 0,
     invoice_type_options |-> {}, shift_options |-> {}, rider_options |-> {},
     prior_invoice_type |-> Null, prior_shifts |-> Null, prior_riders |-> Null,
     filtered_df |-> <<>>, recon |-> Null]

(***************************************************************************)
(* load_data behind st.cache_data(ttl=600)                                 *)
(***************************************************************************)
CacheFresh(cch, src, t) == ~IsNull(cch[src]) /\ t - Val(cch[src]).at < TTL_MIN

\* load_data(url, worksheet): the cached entry while it is fresh, else a load
load_data(cch, sh, src, t) ==
    IF CacheFresh(cch, src, t)
    THEN [df |-> Val(cch[src]).df, at |-> Val(cch[src]).at, hit |-> TRUE]
    ELSE [df |-> LoadFrame(sh[src]), at |-> t, hit |-> FALSE]

\* the cache after load_data was called for every source of srcs
CacheAfter(cch, sh, srcs, t) ==
    [k \in SourceKeys |->
        IF k \in srcs /\ ~CacheFresh(cch, k, t)
        THEN Some([df |-> LoadFrame(sh[k]), at |-> t])
        ELSE cch[k]]

\* branch_options, in DATA_SOURCES order without "admin"
BranchOrder == SelectSeq(KeyOrder, LAMBDA k : k # "admin")

\* the loop of lines 232-239 over selected_branches, the list the multiselect
\* returned, in that list's order
RECURSIVE ConcatBranches(_, _, _, _)
ConcatBranches(selected, cch, sh, t) ==
    IF selected = <<>> THEN <<>>
    ELSE IF IsNull(DATA_SOURCES[Head(selected)].sheet_url)
         THEN ConcatBranches(Tail(selected), cch, sh, t)
         ELSE TagBranch(load_data(cch, sh, Head(selected), t).df,
                        DATA_SOURCES[Head(selected)].phase)
              \o ConcatBranches(Tail(selected), cch, sh, t)

IsAdmin(sess) == sess.username = Some(T_admin)

\* SHEET_URL = st.session_state.get("sheet_url", DATA_SOURCES["default"]["sheet_url"])
SheetUrl(sess) == IF IsNull(sess.sheet_url) THEN "default" ELSE Val(sess.sheet_url)

\* the sources load_data is called for in a pass
SourcesOf(sess, selected_branches) ==
    IF IsAdmin(sess)
    THEN {selected_branches[i] : i \in DOMAIN selected_branches}
    ELSE {SheetUrl(sess)}

\* df of lines 224-252
LoadedDf(sess, selected_branches, cch, sh, t) ==
    IF IsAdmin(sess)
    THEN Reindex(ConcatBranches(selected_branches, cch, sh, t))
    ELSE [i \in DOMAIN load_data(cch, sh, SheetUrl(sess), t).df |->
            [load_data(cch, sh, SheetUrl(sess), t).df[i] EXCEPT !.branch = sess.phase]]

(***************************************************************************)
(* Widgets.  A widget keeps the value the user gave it for as long as the  *)
(* script calls it with the same options and default; called with other    *)
(* ones it is a new widget and returns its default.                        *)
(***************************************************************************)
\* st.multiselect raises when a default value is not among the options
MultiselectRaises(options, default) == ~(default \subseteq options)

MultiselectValue(stored, options, default) ==
    IF ~IsNull(stored) /\ Val(stored).opts = options /\ Val(stored).dflt = default
    THEN Val(stored).val
    ELSE default

Rendered(options, default, value) == Some([opts |-> options, dflt |-> default, val |-> value])

\* st.date_input("Select Date Range", [min_date, max_date])
DateValue(stored, default) ==
    IF ~IsNull(stored) /\ Val(stored).dflt = default THEN Val(stored).val ELSE default


(***************************************************************************)
(* One run of the script for an authenticated session.  ev is the event    *)
(* that caused the run, w0 the widget store with the user's change in it.  *)
(* The result is the session state, widget store, cache and rendering the  *)
(* run leaves behind.                                                      *)
(***************************************************************************)
\* the result of a run: what it leaves in the session state, the widget store
\* and the cache, and what it rendered
Result(sess, wid, cch, view) ==
    [session |-> sess, widgets |-> wid, cache |-> cch, out |-> view]

\* the invoice summary on filtered_df, or the exception it dies of
SummaryStage(sess, wid, cch, view, filtered_df) ==
    Result(sess, wid, cch,
           [view EXCEPT !.stage = IF ReconRaises(filtered_df) THEN "err_recon" ELSE "ok",
                        !.filtered_df = filtered_df,
                        !.recon = IF ReconRaises(filtered_df) THEN Null
                                  ELSE Some(Reconcile(filtered_df, sess.username))])

\* the Select All / Clear All buttons and the rider multiselect (lines 375-392),
\* then the final filtered dataframe (lines 394-401)
RiderSelect(sess, w0, wid, cch, view, rider_options, rider1) ==
    LET rider_default == IF rider1 \subseteq rider_options THEN rider1 ELSE rider_options
        selected_riders == MultiselectValue(w0.rider, rider_options, rider_default)
    IN  SummaryStage([sess EXCEPT !.selected_riders = Some(selected_riders)],
                     [wid EXCEPT !.rider = Rendered(rider_options, rider_default,
                                                    selected_riders)],
                     cch,
                     [view EXCEPT !.rider_options = rider_options,
                                  !.prior_riders = sess.selected_riders],
                     FilteredDf(view.df, view.start, view.end,
                                view.invoice_type_options,
                                Val(sess.selected_invoice_type),
                                view.shift_options, Val(sess.selected_shifts),
                                rider_options, selected_riders))

\* --- Rider Name/Code --- (lines 368-373)
RiderLevel(sess, w0, wid, cch, view, rider_options, ev) ==
    RiderSelect(sess, w0, wid, cch, view, rider_options,
                CASE ev = "select_all" -> rider_options
                  [] ev = "clear_all" -> {}
                  [] OTHER -> IF IsNull(sess.selected_riders) THEN rider_options
                              ELSE Val(sess.selected_riders))

\* the shift multiselect and lvl2 (lines 358-366); shift0 is
\* st.session_state.selected_shifts as the widget call finds it
ShiftSelect(sess, w0, wid, cch, view, lvl1, shift_options, shift0, ev) ==
    LET shift_default == IF shift0 # {} THEN shift0 ELSE shift_options
        shift_value == MultiselectValue(w0.shift, shift_options, shift_default)
        selected_shifts == IF shift_value # {} THEN shift_value ELSE shift_options
    IN  IF MultiselectRaises(shift_options, shift_default)
        THEN Result([sess EXCEPT !.selected_shifts = Some(shift0)], wid, cch,
                    [view EXCEPT !.stage = "err_shift",
                                 !.shift_options = shift_options,
                                 !.prior_shifts = sess.selected_shifts])
        ELSE RiderLevel([sess EXCEPT !.selected_shifts = Some(selected_shifts)],
                        w0,
                        [wid EXCEPT !.shift = Rendered(shift_options, shift_default,
                                                       shift_value)],
                        cch,
                        [view EXCEPT !.shift_options = shift_options,
                                     !.prior_shifts = sess.selected_shifts],
                        Options(Lvl2(lvl1, selected_shifts), "rider"),
                        ev)

\* --- Shift Type --- (lines 348-356)
ShiftLevel(sess, w0, wid, cch, view, lvl1, shift_options, ev) ==
    ShiftSelect(sess, w0, wid, cch, view, lvl1, shift_options,
                IF IsNull(sess.selected_shifts) THEN shift_options
                ELSE Val(sess.selected_shifts),
                ev)

\* the invoice multiselect and lvl1 (lines 337-346); inv0 is
\* st.session_state.selected_invoice_type as the widget call finds it
InvoiceSelect(sess, w0, wid, cch, view, base, invoice_type_options, inv0, ev) ==
    LET inv_default == IF inv0 # {} THEN inv0 ELSE invoice_type_options
        inv_value == MultiselectValue(w0.invoice, invoice_type_options, inv_default)
        selected_invoice_type == IF inv_value # {} THEN inv_value ELSE invoice_type_options
    IN  IF MultiselectRaises(invoice_type_options, inv_default)
        THEN Result([sess EXCEPT !.selected_invoice_type = Some(inv0)], wid, cch,
                    [view EXCEPT !.stage = "err_invoice",
                                 !.invoice_type_options = invoice_type_options,
                                 !.prior_invoice_type = sess.selected_invoice_type])
        ELSE ShiftLevel([sess EXCEPT !.selected_invoice_type = Some(selected_invoice_type)],
                        w0,
                        [wid EXCEPT !.invoice = Rendered(invoice_type_options, inv_default,
                                                         inv_value)],
                        cch,
                        [view EXCEPT !.invoice_type_options = invoice_type_options,
                                     !.prior_invoice_type = sess.selected_invoice_type],
                        Lvl1(base, selected_invoice_type),
                        Options(Lvl1(base, selected_invoice_type), "shift"),
                        ev)

\* --- Invoice Type --- (lines 328-335)
InvoiceLevel(sess, w0, wid, cch, view, base, invoice_type_options, ev) ==
    InvoiceSelect(sess, w0, wid, cch, view, base, invoice_type_options,
                  IF IsNull(sess.selected_invoice_type) THEN invoice_type_options
                  ELSE Val(sess.selected_invoice_type),
                  ev)

\* the date range picked (lines 319-326).  start_date, end_date = ... unpacks
\* what the date input returns: while only the first day of a range has been
\* clicked that is a 1-tuple, and the unpacking raises
DateLevel(sess, w0, wb, cch, view, df, date_default, date_value, ev) ==
    IF Len(date_value) # 2
    THEN Result(sess,
                [NoWidgets EXCEPT !.branches = wb,
                                  !.date = Some([dflt |-> date_default,
                                                 val |-> date_value])],
                cch,
                [view EXCEPT !.stage = "err_date", !.df = df])
    ELSE InvoiceLevel(sess, w0,
                 [NoWidgets EXCEPT !.branches = wb,
                                   !.date = Some([dflt |-> date_default,
                                                  val |-> date_value])],
                 cch,
                 [view EXCEPT !.df = df, !.start = date_value[1], !.end = date_value[2]],
                 Base(df, date_value[1], date_value[2]),
                 Options(Base(df, date_value[1], date_value[2]), "invoice_type"),
                 ev)

\* lines 316-401 and the invoice summary, on the loaded df
FilterStage(sess, w0, wb, cch, df, served, selected_branches, t, ev) ==
    DateLevel(sess, w0, wb, cch,
              [LoginView EXCEPT !.event = ev, !.at = t,
                                !.branches = selected_branches, !.served = served],
              df,
              <<MinDate(df), MaxDate(df)>>,
              DateValue(w0.date, <<MinDate(df), MaxDate(df)>>),
              ev)

\* if st.sidebar.button("Reload Sheet"): st.cache_data.clear()
CacheAfterReload(cch, ev) == IF ev = "reload" THEN EmptyCache ELSE cch

\* lines 224-252 (data loading), then the Reload button, then the filters
DataStage(sess, w0, cch, sh, t, ev) ==
    LET selected_branches ==
            IF ~IsAdmin(sess) THEN <<>>
            ELSE IF IsNull(w0.branches) THEN BranchOrder ELSE Val(w0.branches)
        srcs == SourcesOf(sess, selected_branches)
        served == {[src |-> k, at |-> load_data(cch, sh, k, t).at,
                    hit |-> load_data(cch, sh, k, t).hit] : k \in srcs}
        df == LoadedDf(sess, selected_branches, cch, sh, t)
        wb == IF IsAdmin(sess) THEN Some(selected_branches) ELSE Null
    IN  IF IsAdmin(sess) /\ selected_branches = <<>>
        THEN [session |-> sess,
              widgets |-> [NoWidgets EXCEPT !.branches = wb],
              cache |-> cch,
              out |-> [LoginView EXCEPT !.stage = "no_branch", !.event = ev, !.at = t]]
        ELSE FilterStage(sess, w0, wb,
                         CacheAfterReload(CacheAfter(cch, sh, srcs, t), ev),
                         df, served, selected_branches, t, ev)

RunScriptNoIdleCheck(sess, w0, cch, sh, t, ev) ==
    IF sess.authed # Some(TRUE)
    THEN [session |-> sess, widgets |-> NoWidgets, cache |-> cch,
          out |-> [LoginView EXCEPT !.event = ev, !.at = t]]
    ELSE IF ev = "logout"
    THEN [session |-> EmptySession, widgets |-> NoWidgets, cache |-> cch,
          out |-> [LoginView EXCEPT !.stage = "logged_out", !.event = ev, !.at = t]]
    ELSE DataStage([sess EXCEPT !.last_activity = Some(t)], w0, cch, sh, t, ev)

\* the whole script: the _authed() gate, the Logout button, the dashboard
RunScript(sess, w0, cch, sh, t, ev) ==
    IF sess.authed # Some(TRUE)
    THEN \* line 85: the login page; nothing is written to the session state
         [session |-> sess, widgets |-> NoWidgets, cache |-> cch,
          out |-> [LoginView EXCEPT !.event = ev, !.at = t]]
    ELSE IF t - Val(sess.last_activity) > IDLE_TIMEOUT_MIN
    THEN [session |-> EmptySession, widgets |-> NoWidgets, cache |-> cch,
          out |-> [LoginView EXCEPT !.event = ev, !.at = t]]
    ELSE IF ev = "logout"
    THEN \* lines 146-148: the run ends at st.rerun(), the page is not drawn
         [session |-> EmptySession, widgets |-> NoWidgets, cache |-> cch,
          out |-> [LoginView EXCEPT !.stage = "logged_out", !.event = ev, !.at = t]]
    ELSE DataStage([sess EXCEPT !.last_activity = Some(t)], w0, cch, sh, t, ev)

Authed == session.authed = Some(TRUE)

\* one run of the script, from line 136 to the line that ends it
Pass(w0, ev) ==
    /\ \E r \in {RunScript(session, w0, cache, sheet, now, ev)} :
           /\ session' = r.session
           /\ widgets' = r.widgets
           /\ cache' = r.cache
           /\ out' = r.out
    /\ UNCHANGED <<now, sheet, edits>>


(***************************************************************************)
(* Bounds and inputs                                                       *)
(***************************************************************************)
MaxDay == 2         \* the days a sheet row or a picked date range may name
MaxEdits == 1       \* sheet edits in one behaviour
MaxTime == 60       \* the clock stops here
MaxRows == 3        \* rows of a drawn sheet

Days == 1..MaxDay

Row(date, rider, inv, shift, status, amount, payout, cash, fifty) ==
    [date |-> Some(date), rider |-> Some(rider), invoice_type |-> Some(inv),
     shift |-> Some(shift), order_status |-> Some(status),
     total_amount |-> Some(amount), payout |-> Some(payout), cash |-> Some(cash),
     fifty_ten |-> Some(fifty), delay_reason |-> Null, ref |-> {}]

\* the load raises nothing and the date picker has a range to offer only when
\* some row of the sheet has a date
HasDate(rows) == \E i \in DOMAIN rows : "date" \notin rows[i].ref /\ ~IsNull(rows[i].date)

(***************************************************************************)
(* Actions                                                                 *)
(***************************************************************************)
\* _login_ui(): the form is all the script shows while _authed() is False;
\* it is submitted from the rendered login page
Login(username_in, password_in) ==
    /\ ~Authed
    /\ out.stage = "login"
    /\ LET u == Lower(Strip(username_in))
           user_ok == u \in DOMAIN USERS
           pass_ok == user_ok /\ USERS[u] = password_in
           prof == resolve_profile(u)
       IN  IF user_ok /\ pass_ok
           THEN /\ session' = [session EXCEPT !.authed = Some(TRUE),
                                              !.username = Some(u),
                                              !.last_activity = Some(now),
                                              !.sheet_url = prof.sheet_url,
                                              !.phase = Some(prof.phase)]
                /\ cache' = EmptyCache
           ELSE UNCHANGED <<session, cache>>
    /\ out' = [LoginView EXCEPT !.event = "login", !.at = now]
    /\ widgets' = NoWidgets
    /\ UNCHANGED <<now, sheet, edits>>

\* a run no filter widget caused: the run st.rerun() starts after the login
\* (line 131) and after the logout (line 148), the hour selectbox
Rerun ==
    /\ Authed \/ out.stage = "logged_out"
    /\ Pass(widgets, "rerun")

\* the run the click on the Logout button causes; the login page is rendered
\* by the run its st.rerun() starts, which is a Rerun
Logout ==
    /\ Authed
    /\ out.stage \notin {"login", "logged_out"}
    /\ Pass(widgets, "logout")

ReloadSheet ==
    /\ Authed
    /\ out.stage \notin {"login", "logged_out", "no_branch"}
    /\ Pass(widgets, "reload")

ChangeBranches(B) ==
    /\ ~IsNull(widgets.branches)
    /\ B # Val(widgets.branches)
    /\ Pass([widgets EXCEPT !.branches = Some(B)], "branches")

\* the first click of a new range: the date input holds one day
PickRangeStart(d) ==
    /\ ~IsNull(widgets.date)
    /\ <<d>> # Val(widgets.date).val
    /\ Pass([widgets EXCEPT !.date = Some([dflt |-> Val(widgets.date).dflt,
                                           val |-> <<d>>])], "dates")

ChangeDateRange(s, e) ==
    /\ ~IsNull(widgets.date)
    /\ s <= e
    /\ <<s, e>> # Val(widgets.date).val
    /\ Pass([widgets EXCEPT !.date = Some([dflt |-> Val(widgets.date).dflt,
                                           val |-> <<s, e>>])], "dates")

ChangeInvoiceTypes(X) ==
    /\ ~IsNull(widgets.invoice)
    /\ X \subseteq Val(widgets.invoice).opts
    /\ X # Val(widgets.invoice).val
    /\ Pass([widgets EXCEPT !.invoice = Some([Val(widgets.invoice) EXCEPT !.val = X])],
            "invoice")

ChangeShifts(X) ==
    /\ ~IsNull(widgets.shift)
    /\ X \subseteq Val(widgets.shift).opts
    /\ X # Val(widgets.shift).val
    /\ Pass([widgets EXCEPT !.shift = Some([Val(widgets.shift) EXCEPT !.val = X])],
            "shift")

ChangeRiders(X) ==
    /\ ~IsNull(widgets.rider)
    /\ X \subseteq Val(widgets.rider).opts
    /\ X # Val(widgets.rider).val
    /\ Pass([widgets EXCEPT !.rider = Some([Val(widgets.rider) EXCEPT !.val = X])],
            "rider")

SelectAllRiders ==
    /\ ~IsNull(widgets.rider)
    /\ Pass(widgets, "select_all")

ClearAllRiders ==
    /\ ~IsNull(widgets.rider)
    /\ Pass(widgets, "clear_all")

Tick(d) ==
    /\ now + d <= MaxTime
    /\ now' = now + d
    /\ UNCHANGED <<sheet, cache, session, widgets, out, edits>>

\* somebody edits a Google sheet
SheetEdit(src, rows) ==
    /\ edits < MaxEdits
    /\ rows # sheet[src]
    /\ HasDate(rows)
    /\ sheet' = [sheet EXCEPT ![src] = rows]
    /\ edits' = edits + 1
    /\ UNCHANGED <<now, cache, session, widgets, out>>

InitWith(sheets) ==
    /\ now = 0
    /\ sheet \in sheets
    /\ cache = EmptyCache
    /\ session = EmptySession
    /\ widgets = NoWidgets
    /\ out = LoginView
    /\ edits = 0

(***************************************************************************)
(* Spec: the cascading filters on fixed sheets                             *)
(***************************************************************************)
OneRow == <<Row(1, "R1", COD, "Morning", Completed, 100, 0, 0, 0)>>

FilterSheetEmp ==
    <<Row(1, "R1", COD, "Morning", Completed, 100, 80, 0, 10),
      Row(1, "R2", Card, "Evening", Completed, 100, 0, 0, 0),
      Row(2, "R1", COD, "Evening", CancelOrder, 100, 0, 0, 0)>>

\* a sheet whose Invoice Type cells are all blank
FilterSheetCc ==
    <<[Row(1, "R1", COD, "Morning", Completed, 100, 0, 0, 0)
          EXCEPT !.invoice_type = Null],
      [Row(2, "R2", COD, "Evening", Completed, 100, 0, 0, 0)
          EXCEPT !.invoice_type = Null]>>

\* a sheet with a row whose Date cell is blank
FilterSheetCk ==
    OneRow \o <<[Row(1, "R2", Card, "Evening", Completed, 100, 0, 0, 0)
                    EXCEPT !.date = Null]>>

FilterSheets ==
    {[k \in SourceKeys |->
        CASE k = "emp" -> FilterSheetEmp
          [] k = "cc" -> FilterSheetCc
          [] k = "ck" -> FilterSheetCk
          [] OTHER -> OneRow]}

FilterLogins ==
    {<<T_emp, "emp123">>, <<U_cc, "CC123">>, <<T_admin, "6969">>, <<T_emp, "6969">>}
\* the branch lists the admin leaves in the multiselect, in picking order
FilterBranchChoices == {BranchOrder, <<"emp">>, <<"cc", "ck">>, <<"ck", "cc">>, <<>>}

Init == InitWith(FilterSheets)

Next ==
    \/ \E l \in FilterLogins : Login(l[1], l[2])
    \/ Rerun
    \/ Logout
    \/ \E B \in FilterBranchChoices : ChangeBranches(B)
    \/ \E d \in Days : PickRangeStart(d)
    \/ \E s, e \in Days : ChangeDateRange(s, e)
    \/ \E X \in SUBSET {COD, Card} : ChangeInvoiceTypes(X)
    \/ \E X \in SUBSET {"Morning", "Evening"} : ChangeShifts(X)
    \/ \E X \in SUBSET {"R1", "R2"} : ChangeRiders(X)
    \/ SelectAllRiders
    \/ ClearAllRiders

Spec == Init /\ [][Next]_vars


(***************************************************************************)
(* Claims about the cascading filters (checked under Spec)                 *)
(***************************************************************************)
\* stages of a pass: which filter levels the last pass got through
ReachedInvoice == out.stage \in {"err_invoice", "err_shift", "err_recon", "ok"}
ReachedShift == out.stage \in {"err_shift", "err_recon", "ok"}
ReachedRider == out.stage \in {"err_recon", "ok"}

\* a remembered selection reconciled against new options: the intersection,
\* or every option when the intersection is empty
Reconciled(prior, options) ==
    LET kept == (IF IsNull(prior) THEN {} ELSE Val(prior)) \cap options
    IN  IF kept = {} THEN options ELSE kept

\* C1: after a pass in which the user did not edit the level's own widget, the
\* persisted invoice-type selection is the remembered selection intersected
\* with the new invoice options, or all options when that is empty; the same
\* holds at the shift level.
C1_IntersectOrFallback ==
    /\ (ReachedInvoice /\ out.event # "invoice") =>
          session.selected_invoice_type =
              Some(Reconciled(out.prior_invoice_type, out.invoice_type_options))
    /\ (ReachedShift /\ out.event # "shift") =>
          session.selected_shifts =
              Some(Reconciled(out.prior_shifts, out.shift_options))

\* C2: with an empty resolved rider selection and rider options present, the
\* final filtered set is the date-bounded base restricted by the resolved
\* invoice-type and shift selections only.
C2_EmptyRiderSelectionIsUnconstrained ==
    (ReachedRider /\ session.selected_riders = Some({}) /\ out.rider_options # {}) =>
        out.filtered_df =
            SelectSeq(out.df, LAMBDA r :
                /\ InRange(r, out.start, out.end)
                /\ (Val(session.selected_invoice_type) # {} =>
                        IsIn(r, "invoice_type", Val(session.selected_invoice_type)))
                /\ (Val(session.selected_shifts) # {} =>
                        IsIn(r, "shift", Val(session.selected_shifts))))

\* C9: the remembered selections are reset when the source changes: a session
\* that has just logged in holds none, and the pass that handles a change of
\* the admin's selected branches resolves every level from no remembered
\* selection.
C9_SelectionsResetOnSourceChange ==
    /\ out.event = "login" =>
          /\ IsNull(session.selected_invoice_type)
          /\ IsNull(session.selected_shifts)
          /\ IsNull(session.selected_riders)
    /\ (out.event = "branches" /\ ReachedInvoice) => IsNull(out.prior_invoice_type)
    /\ (out.event = "branches" /\ ReachedShift) => IsNull(out.prior_shifts)
    /\ (out.event = "branches" /\ ReachedRider) => IsNull(out.prior_riders)

InBase(r) == InRange(r, out.start, out.end)

\* C10 as claimed: invoice options are the distinct non-null invoice types of
\* the date-bounded base, shift options those of the base restricted to the
\* resolved invoice selection, rider options those of that set restricted to
\* the resolved shift selection.
C10_OptionsFromRestrictedBase ==
    /\ ReachedInvoice =>
          out.invoice_type_options =
              {t \in {Val(out.df[i].invoice_type) :
                        i \in {j \in DOMAIN out.df : ~IsNull(out.df[j].invoice_type)}} :
                  \E i \in DOMAIN out.df :
                      InBase(out.df[i]) /\ out.df[i].invoice_type = Some(t)}
    /\ ReachedShift =>
          \A s \in {"Morning", "Evening"} :
              s \in out.shift_options <=>
                  \E i \in DOMAIN out.df :
                      /\ InBase(out.df[i])
                      /\ IsIn(out.df[i], "invoice_type", Val(session.selected_invoice_type))
                      /\ out.df[i].shift = Some(s)
    /\ ReachedRider =>
          \A x \in {"R1", "R2"} :
              x \in out.rider_options <=>
                  \E i \in DOMAIN out.df :
                      /\ InBase(out.df[i])
                      /\ IsIn(out.df[i], "invoice_type", Val(session.selected_invoice_type))
                      /\ IsIn(out.df[i], "shift", Val(session.selected_shifts))
                      /\ out.df[i].rider = Some(x)

\* restricted to a selection, where an empty selection restricts nothing
Admits(r, col, selection) == selection = {} \/ IsIn(r, col, selection)

C10_OptionsInv ==
    /\ ReachedInvoice =>
          out.invoice_type_options =
              {t \in {Val(out.df[i].invoice_type) :
                        i \in {j \in DOMAIN out.df : ~IsNull(out.df[j].invoice_type)}} :
                  \E i \in DOMAIN out.df :
                      InBase(out.df[i]) /\ out.df[i].invoice_type = Some(t)}
    /\ ReachedShift =>
          /\ out.shift_options \subseteq {"Morning", "Evening"}
          /\ \A s \in {"Morning", "Evening"} :
              s \in out.shift_options <=>
                  \E i \in DOMAIN out.df :
                      /\ InBase(out.df[i])
                      /\ Admits(out.df[i], "invoice_type", Val(session.selected_invoice_type))
                      /\ out.df[i].shift = Some(s)
    /\ ReachedRider =>
          /\ out.rider_options \subseteq {"R1", "R2"}
          /\ \A x \in {"R1", "R2"} :
              x \in out.rider_options <=>
                  \E i \in DOMAIN out.df :
                      /\ InBase(out.df[i])
                      /\ Admits(out.df[i], "invoice_type", Val(session.selected_invoice_type))
                      /\ Admits(out.df[i], "shift", Val(session.selected_shifts))
                      /\ out.df[i].rider = Some(x)

\* a pass caused by a change at a lower level, on the same data and dates,
\* leaves the option sets of the higher levels as they were
C10_Step ==
    /\ out'.df = out.df /\ out'.start = out.start /\ out'.end = out.end
    /\ ReachedRider /\ ReachedRider'
    /\ out'.event \in {"shift", "rider", "select_all", "clear_all"}
    => /\ out'.invoice_type_options = out.invoice_type_options
       /\ (out'.event # "shift" => out'.shift_options = out.shift_options)

\* C10 (amended): the option set of a level is computed from the date-bounded
\* base restricted to the resolved selections of the higher levels, an empty
\* resolved selection restricting nothing; a change of a lower-level selection
\* never changes a higher-level option set.
C10_OptionsFromHigherLevelsOnly == [](C10_OptionsInv) /\ [][C10_Step]_vars

\* a pass in which the invoice selection narrowed the shift options
C10_Witness ==
    /\ out.stage = "ok"
    /\ out.event = "rider"
    /\ Val(session.selected_invoice_type) # out.invoice_type_options
    /\ out.shift_options # Options(Base(out.df, out.start, out.end), "shift")


\* C11: the pass in which "Select All Riders" is pressed ends with the
\* persisted rider selection equal to the full rider option set; the pass in
\* which "Clear All Riders" is pressed ends with it empty.
C11_BulkActionsPersist ==
    /\ (ReachedRider /\ out.event = "select_all") =>
          session.selected_riders = Some(out.rider_options)
    /\ (ReachedRider /\ out.event = "clear_all") =>
          session.selected_riders = Some({})

\* the positions of out.df whose date lies in the picked range
BaseRows == {j \in DOMAIN out.df :
                /\ out.df[j].date # Null
                /\ out.start <= out.df[j].date[1]
                /\ out.df[j].date[1] <= out.end}

\* C12: every record of the final filtered set is a record of the loaded
\* frame with a non-null date inside the picked range, no record is in it
\* twice, and so it has at most as many records as the date-bounded base.
C12_FiltersOnlyNarrow ==
    ReachedRider =>
        /\ \A i \in DOMAIN out.filtered_df :
              \E j \in BaseRows : out.df[j] = out.filtered_df[i]
        /\ \A i, k \in DOMAIN out.filtered_df :
              out.filtered_df[i].idx = out.filtered_df[k].idx => i = k
        /\ Len(out.filtered_df) <= Cardinality(BaseRows)

\* a pass on a frame with a null-date record, a date range that leaves
\* dated records out, and selections that narrow the base further
C12_Witness ==
    /\ out.stage = "ok"
    /\ \E j \in DOMAIN out.df : out.df[j].date = Null
    /\ \E j \in DOMAIN out.df : out.df[j].date # Null /\ j \notin BaseRows
    /\ out.filtered_df # <<>>
    /\ Len(out.filtered_df) < Cardinality(BaseRows)

\* the number of sheet rows of the branches of a list
RECURSIVE RowCount(_)
RowCount(selected) ==
    IF selected = <<>> THEN 0
    ELSE Len(sheet[Head(selected)]) + RowCount(Tail(selected))

\* the rows that come before those of the p-th selected branch
Before(p, selected) == RowCount(SubSeq(selected, 1, p - 1))

\* a row of the unified frame carries the cells of a sheet row
SameCells(fr, raw) ==
    /\ fr.date = raw.date /\ fr.rider = raw.rider
    /\ fr.invoice_type = raw.invoice_type /\ fr.shift = raw.shift
    /\ fr.order_status = raw.order_status
    /\ fr.total_amount = raw.total_amount[1] /\ fr.payout = raw.payout[1]
    /\ fr.cash = raw.cash[1] /\ fr.fifty_ten = raw.fifty_ten[1]

\* C13: the frame the admin's filters run on is the concatenation, in the
\* order of the selected list, of the frames loaded for the selected branches,
\* every record tagged with its branch's phase and indexed by its position;
\* its length is the sum of the branches' row counts; with no branch selected
\* the pass renders no filter and computes no summary.
C13_UnifiedSnapshot ==
    /\ (IsAdmin(session) /\ out.stage \notin {"login", "logged_out", "no_branch"}) =>
          /\ out.branches # <<>>
          /\ Len(out.df) = RowCount(out.branches)
          /\ \A j \in DOMAIN out.df : out.df[j].idx = j - 1
          /\ \A p \in DOMAIN out.branches : \A n \in DOMAIN sheet[out.branches[p]] :
                /\ SameCells(out.df[Before(p, out.branches) + n],
                             sheet[out.branches[p]][n])
                /\ out.df[Before(p, out.branches) + n].branch =
                      Some(PhaseOf(out.branches[p]))
    /\ (IsAdmin(session) /\ widgets.branches = Some(<<>>)) =>
          /\ out.stage = "no_branch"
          /\ out.filtered_df = <<>> /\ out.recon = Null
          /\ widgets.date = Null /\ widgets.invoice = Null
          /\ widgets.shift = Null /\ widgets.rider = Null

\* the admin's pass over two branches picked against the DATA_SOURCES order
C13_Witness ==
    /\ IsAdmin(session)
    /\ out.stage = "ok"
    /\ out.branches = <<"ck", "cc">>
    /\ Len(out.df) = Len(sheet["ck"]) + Len(sheet["cc"])
    /\ out.df[1].branch = Some("CK")
    /\ out.df[Len(out.df)].branch = Some("CC")

(***************************************************************************)
(* SpecRecon: the invoice summary over drawn sheets                        *)
(***************************************************************************)
\* the rows a drawn sheet is made of, all of day 1; the first three are the
\* documented example (COD 1000 with payout 80, cancelled card 500,
\* complaint order 200)
ReconPool ==
    <<Row(1, "R1", COD, "Morning", Completed, 1000, 80, 0, 0),
      Row(1, "R1", Card, "Morning", CancelOrder, 500, 0, 0, 0),
      Row(1, "R1", ComplaintOrder, "Morning", Completed, 200, 0, 0, 0),
      Row(1, "R1", PRTab, "Morning", Completed, 300, 0, 0, 0),
      Row(1, "R1", StaffTab, "Morning", Completed, 150, 0, 0, 0),
      Row(1, "R1", CODOnline, "Morning", CancelOrder, 400, 80, 50, 10),
      Row(1, "R1", Card, "Morning", Completed, 250, 0, 0, 10),
      [Row(1, "R1", COD, "Morning", Completed, 120, 0, 0, 0)
          EXCEPT !.delay_reason = Null, !.ref = {"delay_reason"}],
      [Row(1, "R1", COD, "Morning", Completed, 90, 0, 0, 0)
          EXCEPT !.invoice_type = Null]>>

\* the sheets drawn from the pool: up to MaxRows of its rows, in pool order
RECURSIVE PickRows(_, _)
PickRows(from, n) ==
    IF n = 0 \/ from > Len(ReconPool) THEN {<<>>}
    ELSE PickRows(from + 1, n)
         \cup {<<ReconPool[from]>> \o rest : rest \in PickRows(from + 1, n - 1)}

ReconTables == {t \in PickRows(1, MaxRows) : t # <<>>}

\* every source holds the same drawn table
ReconSheets == {[k \in SourceKeys |-> t] : t \in ReconTables}

ReconLogins == {<<T_emp, "emp123">>, <<U_cc, "CC123">>, <<T_admin, "6969">>}

InitRecon == InitWith(ReconSheets)

NextRecon ==
    \/ \E l \in ReconLogins : Login(l[1], l[2])
    \/ Rerun

SpecRecon == InitRecon /\ [][NextRecon]_vars

(***************************************************************************)
(* Claims about the invoice summary (checked under SpecRecon)              *)
(***************************************************************************)
\* the sum of Total Amount over the rows of a frame at the positions in I
RECURSIVE AmountOver(_, _)
AmountOver(frame, I) ==
    IF I = {} THEN 0
    ELSE LET i == CHOOSE j \in I : TRUE
         IN  frame[i].total_amount + AmountOver(frame, I \ {i})

TypeHas(r, needle) == ~IsNull(r.invoice_type) /\ Contains(Lower(Val(r.invoice_type)), needle)
IsCancelled(r) == ~IsNull(r.order_status) /\ Lower(Val(r.order_status)) = T_cancel_order

\* the filtered set is the documented example
WorkedExample(f) ==
    /\ Len(f) = 3
    /\ f[1].invoice_type = Some(COD) /\ f[1].total_amount = 1000 /\ f[1].payout = 80
    /\ ~IsCancelled(f[1])
    /\ f[2].invoice_type = Some(Card) /\ f[2].total_amount = 500 /\ f[2].payout = 0
    /\ IsCancelled(f[2])
    /\ f[3].invoice_type = Some(ComplaintOrder) /\ f[3].total_amount = 200
    /\ f[3].payout = 0 /\ ~IsCancelled(f[3])
    /\ \A i \in 1..3 : f[i].cash = 0 /\ f[i].fifty_ten = 0

\* C3: final_net_collection is the gross total of the entire filtered set
\* (complaint, staff-tab and PR-tab orders included) minus cancelled COD,
\* cancelled card, complaint, staff-tab, PR-tab, cash submitted, payouts, card
\* total and, for the Emporium user, the parking fee; the documented example
\* gives 420.
C3_FinalNetCollection ==
    out.stage = "ok" =>
        LET rc == Val(out.recon)
            f == out.filtered_df
        IN  /\ rc.total_amount = AmountOver(f, DOMAIN f)
            /\ rc.final_net_collection =
                  rc.total_amount - rc.cancelled_cod_amount - rc.cancelled_card_amount
                  - rc.complaint_amount - rc.staff_tab_amount - rc.pr_tab_amount
                  - rc.rider_cash_submitted - rc.rider_payouts - rc.card_total
                  - (IF IsEmp(session.username) THEN rc.fifty_ten_total ELSE 0)
            /\ WorkedExample(f) => rc.final_net_collection = 420

C3_Witness ==
    /\ out.stage = "ok"
    /\ WorkedExample(out.filtered_df)
    /\ Val(out.recon).total_amount = 1700
    /\ Val(out.recon).final_net_collection = 420

\* C4: a record is valid exactly when its invoice type contains none of
\* "complaint order", "staff tab", "pr tab"; cod_total and card_total are sums
\* over valid records only.
C4_ValidExcludesThreeTypes ==
    out.stage = "ok" =>
        LET f == out.filtered_df
            valid == filtered_df_valid(f)
            ClaimedValid == {i \in DOMAIN f :
                                /\ ~TypeHas(f[i], T_complaint_order)
                                /\ ~TypeHas(f[i], T_staff_tab)
                                /\ ~TypeHas(f[i], T_pr_tab)}
        IN  /\ {valid[j].idx : j \in DOMAIN valid} = {f[i].idx : i \in ClaimedValid}
            /\ Val(out.recon).card_total =
                  AmountOver(f, {i \in ClaimedValid : TypeHas(f[i], T_card)})

\* C5 as claimed: "Final Net Collection (Card Verification)" is card_total, and
\* the composite final_net_collection is shown beside it as the other
\* "Final Net Collection" figure.
C5_CardVerificationIsCardTotal ==
    out.stage = "ok" =>
        LET rc == Val(out.recon)
        IN  /\ rc.invoice_summary["Final Net Collection (Card Verification)"] = rc.card_total
            /\ rc.invoice_summary["Final Net Collection (COD)"] = rc.final_net_collection

\* C5 (amended): "Final Net Collection (Card Verification)" is card_total minus
\* the cancelled card amount, the sum of Total Amount over the cancelled
\* records whose invoice type contains "card".
C5_CardVerificationNetOfCancelled ==
    out.stage = "ok" =>
        LET rc == Val(out.recon)
            f == out.filtered_df
        IN  rc.invoice_summary["Final Net Collection (Card Verification)"] =
                rc.card_total
                - AmountOver(f, {i \in DOMAIN f : IsCancelled(f[i]) /\ TypeHas(f[i], T_card)})

\* a summary with a cancelled card order, in which no displayed entry is the
\* composite net
C5_Witness ==
    /\ out.stage = "ok"
    /\ Val(out.recon).cancelled_card_amount > 0
    /\ Val(out.recon).invoice_summary["Final Net Collection (Card Verification)"]
          # Val(out.recon).card_total
    /\ \A label \in DOMAIN Val(out.recon).invoice_summary :
          Val(out.recon).invoice_summary[label] # Val(out.recon).final_net_collection

\* C6: in the admin's merged snapshot the parking fee deducted is the sum of
\* 50/10 over the records tagged Emporium, and nothing for other records.
C6_ParkingFeeFollowsBranchTag ==
    (out.stage = "ok" /\ IsAdmin(session)) =>
        LET f == out.filtered_df
            emporium == SelectSeq(f, LAMBDA r : r.branch = Some("Emporium"))
            rc == Val(out.recon)
        IN  /\ rc.fifty_ten_total = SumCol(emporium, "fifty_ten")
            /\ rc.invoice_summary["Parking Fee"] = SumCol(emporium, "fifty_ten")

\* C7: no row of a loaded snapshot comes from a sheet row with a cell
\* containing "#REF!".
C7_RefRowsRemoved ==
    \A k \in SourceKeys :
        ~IsNull(cache[k]) =>
            \A i \in DOMAIN Val(cache[k]).df :
                ~HasRef(sheet[k][Val(cache[k]).df[i].idx + 1])


\* the sum of 50/10 over the rows of a frame at the positions in I
RECURSIVE FiftyTenOver(_, _)
FiftyTenOver(frame, I) ==
    IF I = {} THEN 0
    ELSE LET i == CHOOSE j \in I : TRUE
         IN  frame[i].fifty_ten + FiftyTenOver(frame, I \ {i})

\* C14: the figure shown as "Final Net Collection (COD)" is cod_total minus
\* the cancelled COD amount, the rider payouts and the cash submitted, where
\* cod_total is the COD sum over the records the code keeps as valid, less the
\* 50/10 total for the emp user; the complaint, staff-tab and PR-tab amounts
\* do not enter it.
C14_NetCodIsCodTotalLessDeductions ==
    out.stage = "ok" =>
        LET rc == Val(out.recon)
            f == out.filtered_df
            CodRows == {i \in DOMAIN f :
                          /\ TypeHas(f[i], T_cod)
                          /\ Lower(Val(f[i].invoice_type))
                                \notin {T_complaint_order, T_staff_tab}}
        IN  /\ rc.invoice_summary["Final Net Collection (COD)"] =
                  rc.cod_total - rc.cancelled_cod_amount
                  - rc.rider_payouts - rc.rider_cash_submitted
            /\ rc.cod_total =
                  AmountOver(f, CodRows)
                  - (IF session.username = Some(T_emp)
                     THEN FiftyTenOver(f, DOMAIN f) ELSE 0)

\* the emp user's summary with a complaint order and a 50/10 amount, where
\* the COD figure is not the composite net
C14_Witness ==
    /\ out.stage = "ok"
    /\ session.username = Some(T_emp)
    /\ Val(out.recon).complaint_amount > 0
    /\ Val(out.recon).fifty_ten_total > 0
    /\ Val(out.recon).invoice_summary["Final Net Collection (COD)"]
          # Val(out.recon).final_net_collection

(***************************************************************************)
(* SpecSession: the clock, the cache and the session                       *)
(***************************************************************************)
TwoRows == OneRow \o <<Row(2, "R2", Card, "Evening", Completed, 100, 0, 0, 0)>>

SessionSheets == {[k \in SourceKeys |-> OneRow]}

\* the user name as typed: any case, blanks around it
SessionLogins ==
    {<<T_emp, "emp123">>, <<<<" ", "E", "M", "P", " ">>, "emp123">>,
     <<T_emp, "123">>, <<T_admin, "6969">>}

\* the clock moves by a cache lifetime, or past the idle timeout
ClockSteps == {TTL_MIN, IDLE_TIMEOUT_MIN + 1}

InitSession == InitWith(SessionSheets)

NextSession ==
    \/ \E l \in SessionLogins : Login(l[1], l[2])
    \/ Rerun
    \/ Logout
    \/ ReloadSheet
    \/ \E d \in ClockSteps : Tick(d)
    \/ \E rows \in {OneRow, TwoRows} : SheetEdit("emp", rows)

SpecSession == InitSession /\ [][NextSession]_vars

(***************************************************************************)
(* Claims about the cached snapshot (checked under SpecSession)            *)
(***************************************************************************)
\* C8: the pass a manual reload causes serves no cached entry, no pass serves
\* an entry older than the cache lifetime, and a login leaves no entry behind.
C8_ReloadServesFreshLoad ==
    /\ (out.event = "reload" /\ out.stage \notin {"login", "logged_out", "no_branch"}) =>
          \A e \in out.served : ~e.hit
    /\ \A e \in out.served : out.at - e.at <= TTL_MIN
    /\ (out.event = "login" /\ Authed) => cache = EmptyCache

\* the typed credentials are accepted: the trimmed, lower-cased user name is a
\* key of USERS and the password is that user's
Accepted(l) ==
    /\ Lower(Strip(l[1])) \in DOMAIN USERS
    /\ USERS[Lower(Strip(l[1]))] = l[2]

\* the step changed what the session holds or what is rendered
Ran == out' # out \/ session' # session

\* the run got past the gate and the Logout button to data loading (line 224)
LoadsData(o) == o.stage \notin {"login", "logged_out"}

C15_Inv ==
    LoadsData(out) =>
        /\ session.authed = Some(TRUE)
        /\ session.last_activity = Some(out.at)

C15_Step ==
    \* the dashboard is computed only for an authenticated session whose last
    \* activity is at most IDLE_TIMEOUT_MIN old
    /\ (Ran /\ LoadsData(out')) =>
          /\ session.authed = Some(TRUE)
          /\ now - session.last_activity[1] <= IDLE_TIMEOUT_MIN
          /\ session'.authed = Some(TRUE)
    \* only an accepted login authenticates, and a refused one does not
    /\ (session.authed # Some(TRUE) /\ session'.authed = Some(TRUE)) =>
          \E l \in SessionLogins :
              /\ Login(l[1], l[2])
              /\ Accepted(l)
              /\ session'.username = Some(Lower(Strip(l[1])))
    /\ \A l \in SessionLogins :
          (Login(l[1], l[2]) /\ ~Accepted(l)) => session'.authed # Some(TRUE)
    \* logout and idle expiry clear the session state
    /\ (/\ session.authed = Some(TRUE)
        /\ Ran
        /\ (out'.event = "logout" \/ now - session.last_activity[1] > IDLE_TIMEOUT_MIN)) =>
          /\ \A f \in DOMAIN session' : session'[f] = Null
          /\ \A w \in DOMAIN widgets' : widgets'[w] = Null
          /\ ~LoadsData(out')
    \* the run after a logout shows the login page to a session that holds nothing
    /\ (out.stage = "logged_out" /\ Ran) =>
          /\ session = EmptySession
          /\ session' = EmptySession
          /\ out'.stage = "login"

\* C15: the dashboard is loaded, filtered and summarised only in a session
\* that is authenticated and at most 45 minutes idle; a session becomes
\* authenticated only by a login whose trimmed, lower-cased user name is a key
\* of USERS with its password, a refused login leaves it unauthenticated, and
\* logout or idle expiry clears the whole session state, the remembered
\* filter selections included.
C15_AuthenticatedSessionsOnly == [](C15_Inv) /\ [][C15_Step]_vars

\* a run that found the session idle for too long: it rendered the login page
\* and left nothing in the session state
C15_Witness ==
    /\ out.stage = "login"
    /\ out.event = "reload"
    /\ out.at > IDLE_TIMEOUT_MIN
    /\ session = EmptySession
    /\ cache # EmptyCache

=============================================================================
